---- MODULE Spec2Model ----
(***************************************************************************)
(* MockProver (src/src/dev.rs): the witness recorder driven by a circuit's *)
(* synthesis, and verify's four checks over the recorded state.            *)
(*                                                                         *)
(* A run is MockProver::run(k, circuit, instance).  The circuits are the   *)
(* two circuits of the repository's tests and two further circuits:        *)
(*   Faulty  tests::unassigned_cell (dev.rs 717-785)                        *)
(*   Xor     the "xor table" lookup of tests/lookup_xor.rs                  *)
(*   Pub     a gate and a permutation over an instance column              *)
(*   TwoSel  two selectors, each with a gate, and two permutations         *)
(* A panic (index out of bounds, unwrap on None, failed assert!) is an     *)
(* outcome of its own, distinct from every returned value.                 *)
(***************************************************************************)
EXTENDS Integers, Sequences, FiniteSets, TLC

VARIABLES
    circuit,         \* the ConcreteCircuit run was called with
    k,               \* run's k
    instance,        \* MockProver.instance  [column][row], as supplied
    fixed,           \* MockProver.fixed     [column][row], None until assigned
    advice,          \* MockProver.advice    [column][row], None until assigned
    regions,         \* MockProver.regions
    current_region,  \* MockProver.current_region: <<>> (None) or <<region>>
    permutations,    \* MockProver.permutations: one assembly mapping each
    phase,           \* where the run is
    error,           \* the Error the last operation returned, or "none"
    result,          \* what verify returned
    nops             \* synthesis operations issued so far

vars == <<circuit, k, instance, fixed, advice, regions, current_region,
          permutations, phase, error, result, nops>>

----------------------------------------------------------------------------
(* Bounds of the model *)

\* synthesis may issue this many operations
MaxOps == 4
\* run is called with k in 1..MaxK
MaxK == 2

----------------------------------------------------------------------------
(* The field F.  The code is generic in F; the model instantiates it with   *)
(* the integers modulo the prime P.                                         *)

P == 5
F == 0 .. (P - 1)
F_zero == 0
F_one == 1
F_neg_one == P - 1
F_add(a, b) == (a + b) % P
F_mul(a, b) == (a * b) % P

\* Option<F>::None in a grid cell
None == -1
\* the outcome of reading a Vec element that does not exist
Undef == -2

\* Cells that haven't been explicitly assigned to, default to zero.
cell_value(cell) == IF cell = None THEN F_zero ELSE cell

----------------------------------------------------------------------------
(* Columns, expressions and the constraint systems of the circuits *)

Col(t, i) == [column_type |-> t, index |-> i]

Constant(v) == [tag |-> "Constant", v |-> v]
FixedQ(i) == [tag |-> "Fixed", index |-> i]
AdviceQ(i) == [tag |-> "Advice", index |-> i]
InstanceQ(i) == [tag |-> "Instance", index |-> i]
Sum(a, b) == [tag |-> "Sum", a |-> a, b |-> b]
Product(a, b) == [tag |-> "Product", a |-> a, b |-> b]
Scaled(a, f) == [tag |-> "Scaled", a |-> a, f |-> f]
\* a - b is Sum(a, -b) and -b is Scaled(b, -1)
Sub(a, b) == Sum(a, Scaled(b, F_neg_one))

Query(c, r) == [column |-> c, rotation |-> r]

\* tests::unassigned_cell: a, b advice; q a selector (fixed column 0);
\* gate "Equality check": q * (a[prev] - b[cur])
FaultyCS ==
    [ num_fixed_columns |-> 1, num_advice_columns |-> 2, num_instance_columns |-> 0,
      selectors |-> {0},
      fixed_queries |-> << Query(0, 0) >>,
      advice_queries |-> << Query(0, -1), Query(1, 0) >>,
      instance_queries |-> << >>,
      gates |-> << [ name |-> "Equality check",
                     constraint_names |-> << "" >>,
                     polys |-> << Product(FixedQ(0), Sub(AdviceQ(0), AdviceQ(1))) >>,
                     queried_selectors |-> {0},
                     queried_cells |-> << Query(Col("Advice", 0), -1),
                                          Query(Col("Advice", 1), 0) >> ] >>,
      lookups |-> << >>,
      permutations |-> << >>,
      region_name |-> "Faulty synthesis" ]

\* tests/lookup_xor.rs "xor table": xor_inputs advice 0..2, q_xor a selector
\* (fixed column 0), table_xor instance 0..2;
\* lookup (q_xor*a, q_xor*b, q_xor*out) in (table_a, table_b, table_out)
XorCS ==
    [ num_fixed_columns |-> 1, num_advice_columns |-> 3, num_instance_columns |-> 3,
      selectors |-> {0},
      fixed_queries |-> << Query(0, 0) >>,
      advice_queries |-> << Query(0, 0), Query(1, 0), Query(2, 0) >>,
      instance_queries |-> << Query(0, 0), Query(1, 0), Query(2, 0) >>,
      gates |-> << >>,
      lookups |-> << [ name |-> "xor table",
                       input_expressions |-> << Product(FixedQ(0), AdviceQ(0)),
                                                Product(FixedQ(0), AdviceQ(1)),
                                                Product(FixedQ(0), AdviceQ(2)) >>,
                       table_expressions |-> << InstanceQ(0), InstanceQ(1),
                                                InstanceQ(2) >> ] >>,
      permutations |-> << >>,
      region_name |-> "witness xor op" ]

\* a public-input circuit: a, b advice; p instance;
\* gate "public input": a - p; gate "product": a * b;
\* permutation 0 over the columns (a, p); b is in no permutation
PubCS ==
    [ num_fixed_columns |-> 0, num_advice_columns |-> 2, num_instance_columns |-> 1,
      selectors |-> {},
      fixed_queries |-> << >>,
      advice_queries |-> << Query(0, 0), Query(1, 0) >>,
      instance_queries |-> << Query(0, 0) >>,
      gates |-> << [ name |-> "public input",
                     constraint_names |-> << "a = p" >>,
                     polys |-> << Sub(AdviceQ(0), InstanceQ(0)) >>,
                     queried_selectors |-> {},
                     queried_cells |-> << Query(Col("Advice", 0), 0),
                                          Query(Col("Instance", 0), 0) >> ],
                   [ name |-> "product",
                     constraint_names |-> << "a * b" >>,
                     polys |-> << Product(AdviceQ(0), AdviceQ(1)) >>,
                     queried_selectors |-> {},
                     queried_cells |-> << Query(Col("Advice", 0), 0),
                                          Query(Col("Advice", 1), 0) >> ] >>,
      lookups |-> << >>,
      permutations |-> << << Col("Advice", 0), Col("Instance", 0) >> >>,
      region_name |-> "public" ]

\* a circuit with two selectors and two permutations: a, b advice; q0, q1
\* selectors (fixed columns 0, 1); gate "first": q0 * a; gate "second":
\* q1 * b; permutation 0 over (a), permutation 1 over (b, a)
TwoSelCS ==
    [ num_fixed_columns |-> 2, num_advice_columns |-> 2, num_instance_columns |-> 0,
      selectors |-> {0, 1},
      fixed_queries |-> << Query(0, 0), Query(1, 0) >>,
      advice_queries |-> << Query(0, 0), Query(1, 0) >>,
      instance_queries |-> << >>,
      gates |-> << [ name |-> "first",
                     constraint_names |-> << "" >>,
                     polys |-> << Product(FixedQ(0), AdviceQ(0)) >>,
                     queried_selectors |-> {0},
                     queried_cells |-> << Query(Col("Advice", 0), 0) >> ],
                   [ name |-> "second",
                     constraint_names |-> << "" >>,
                     polys |-> << Product(FixedQ(1), AdviceQ(1)) >>,
                     queried_selectors |-> {1},
                     queried_cells |-> << Query(Col("Advice", 1), 0) >> ] >>,
      lookups |-> << >>,
      permutations |-> << << Col("Advice", 0) >>,
                          << Col("Advice", 1), Col("Advice", 0) >> >>,
      region_name |-> "two selectors" ]

\* ConcreteCircuit::configure(&mut cs)
configure(c) ==
    CASE c = "Faulty" -> FaultyCS
      [] c = "Xor" -> XorCS
      [] c = "Pub" -> PubCS
      [] c = "TwoSel" -> TwoSelCS

cs == configure(circuit)
\* let n = 1 << k
RECURSIVE Pow2(_)
Pow2(e) == IF e = 0 THEN 1 ELSE 2 * Pow2(e - 1)
n == Pow2(k)
Rows == 0 .. (n - 1)

----------------------------------------------------------------------------
(* Region and the recorder's operations (impl Assignment for MockProver) *)

\* Region { name, start: None, enabled_selectors: HashMap::default(), cells: vec![] }
\* enabled_selectors is the sequence of the map's entries in the order the map
\* iterates them; cells is only ever pushed to and asked contains(), and is
\* kept as the set of its elements.
NewRegion(name) ==
    [ name |-> name, start |-> None, enabled_selectors |-> << >>, cells |-> {} ]

\* update_start taking the row of the latest write
update_start_last(r, row) == [r EXCEPT !.start = row]

\* update_start keeping the first row it is given instead of the least
update_start_first(r, row) ==
    [r EXCEPT !.start = IF r.start = None THEN row ELSE r.start]

\* Region::update_start
update_start(r, row) ==
    LET start0 == IF r.start = None THEN row ELSE r.start
        start == IF row < start0 THEN row ELSE start0
    IN  [r EXCEPT !.start = start]

\* region.update_start(row); region.cells.push((column.into(), row))
RecordCell(cr, column, row) ==
    IF cr = << >> THEN cr
    ELSE << [update_start(cr[1], row) EXCEPT !.cells = @ \cup {[column |-> column, row |-> row]}] >>

HasKey(es, selector) == \E i \in 1 .. Len(es) : es[i].selector = selector

InsertAt(s, pos, e) == SubSeq(s, 1, pos - 1) \o << e >> \o SubSeq(s, pos, Len(s))

\* enabled_selectors.entry(*selector).or_default().push(row), the new key
\* landing at position pos of the map's iteration order
PushSelectorRow(es, selector, row, pos) ==
    IF HasKey(es, selector)
    THEN [i \in 1 .. Len(es) |->
            IF es[i].selector = selector
            THEN [es[i] EXCEPT !.rows = Append(@, row)] ELSE es[i]]
    ELSE InsertAt(es, pos, [selector |-> selector, rows |-> << row >>])

----------------------------------------------------------------------------
(* permutation::keygen::Assembly *)

\* Assembly::new(n, p): every slot (column, row) maps to itself
Assembly_new(p) ==
    [c \in 0 .. (Len(p) - 1) |-> [r \in Rows |-> << c, r >>]]

RECURSIVE OnCycle(_, _, _, _)
\* whether slot b is met when following mapping m from slot a
OnCycle(m, a, b, fuel) ==
    IF a = b THEN TRUE
    ELSE IF fuel = 0 THEN FALSE
    ELSE OnCycle(m, m[a[1]][a[2]], b, fuel - 1)

\* Assembly::copy: link two slots, joining their cycles
Assembly_copy(m, lc, lr, rc, rr) ==
    IF OnCycle(m, m[lc][lr], << rc, rr >>, Cardinality(DOMAIN m) * n)
    THEN m
    ELSE [m EXCEPT ![lc][lr] = m[rc][rr], ![rc][rr] = m[lc][lr]]

\* permutation.mapping().iter().position(|c| c == &column): 0-based, or None
Position(columns, column) ==
    IF \E i \in 1 .. Len(columns) : columns[i] = column
    THEN (CHOOSE i \in 1 .. Len(columns) :
            columns[i] = column /\ \A j \in 1 .. (i - 1) : columns[j] # column) - 1
    ELSE None

----------------------------------------------------------------------------
(* The inputs of a run and of the synthesis operations *)

\* the truth table of tests/lookup_xor.rs, transposed into three columns
XorTable == << << 0, 0, 1, 1 >>, << 0, 1, 0, 1 >>, << 0, 1, 1, 0 >> >>
\* wrong_xor_witnesses
XorOnes == << << 1 >>, << 1 >>, << 1 >> >>

Ones(len) == [i \in 1 .. len |-> 1]
LastOne(len) == [i \in 1 .. len |-> IF i = len THEN 1 ELSE 0]

\* the instance vectors run is called with
Instances(c, kk) ==
    CASE c = "Faulty" -> { << >> }
      [] c = "Xor" -> { XorTable, XorOnes }
      [] c = "Pub" -> { << Ones(1) >>, << LastOne(Pow2(kk)) >> }
      [] c = "TwoSel" -> { << >> }

Circuits == { "Faulty", "Xor", "Pub", "TwoSel" }
\* the k run is called with; the two-selector circuit writes row 0 only and
\* is run with k = 1
Ks(c) == IF c = "TwoSel" THEN { 1 } ELSE 1 .. MaxK

\* the values a value producer yields; ProducerErr is a producer returning
\* Err(Error::SynthesisError)
Values == { 0, 1 }
ProducerErr == -3
\* rows the synthesis writes to
RowInputs == IF circuit \in { "Xor", "TwoSel" } THEN { 0 } ELSE { 0, n - 1 }
\* (column, row, producer) of an assign_advice / assign_fixed call on a grid
\* of ncols columns: every cell of RowInputs with every value, and calls that
\* fail: a column past the last, the row n past the last, a failing producer
AssignInputs(ncols) ==
    ((0 .. (ncols - 1)) \X RowInputs \X Values)
      \cup { << ncols, 0, 0 >>, << 0, n, 0 >>, << 0, 0, ProducerErr >>,
             << 0, n, ProducerErr >> }
\* rows the synthesis names in a copy
CopyRows == IF circuit = "TwoSel" THEN { 0 } ELSE { 0, n - 1 }
\* columns handed to copy as left_column and as right_column
LeftColumns == { Col("Advice", 0), Col("Advice", 1) }
RightColumns == { Col("Advice", 0), Col("Instance", 0) }
\* permutation references handed to copy; the last is out of range
PermInputs == 0 .. Len(cs.permutations)
\* selectors handed to enable_selector; the last is backed by no fixed column
SelectorInputs == cs.selectors \cup { cs.num_fixed_columns }

NoResult == [kind |-> "None", errors |-> << >>]

----------------------------------------------------------------------------
(* MockProver::run up to the call of synthesize *)

Init ==
    /\ circuit \in Circuits
    /\ k \in Ks(circuit)
    /\ instance \in Instances(circuit, k)
    /\ fixed = [c \in 0 .. (cs.num_fixed_columns - 1) |-> [r \in Rows |-> None]]
    /\ advice = [c \in 0 .. (cs.num_advice_columns - 1) |-> [r \in Rows |-> None]]
    /\ permutations = [i \in 1 .. Len(cs.permutations) |-> Assembly_new(cs.permutations[i])]
    /\ regions = << >>
    /\ current_region = << >>
    /\ phase = "synthesizing"
    /\ error = "none"
    /\ result = NoResult
    /\ nops = 0

Synthesizing == phase = "synthesizing" /\ nops < MaxOps

\* an operation returned Err: synthesize passes it on with `?` and run
\* returns it
Fail(e) == phase' = "failed" /\ error' = e
\* assert! or unwrap() failed
Panic == phase' = "panicked" /\ error' = "none"
Continue == phase' = phase /\ error' = "none"

\* enter_region without its assert!: an open region is replaced
enter_region_noassert ==
    /\ Synthesizing
    /\ nops' = nops + 1
    /\ Continue
    /\ current_region' = << NewRegion(cs.region_name) >>
    /\ UNCHANGED << circuit, k, instance, fixed, advice, regions, permutations, result >>

enter_region ==
    /\ Synthesizing
    /\ nops' = nops + 1
    /\ IF current_region # << >>
       THEN Panic /\ UNCHANGED current_region
       ELSE Continue /\ current_region' = << NewRegion(cs.region_name) >>
    /\ UNCHANGED << circuit, k, instance, fixed, advice, regions, permutations, result >>

exit_region ==
    /\ Synthesizing
    /\ nops' = nops + 1
    /\ current_region' = << >>
    /\ IF current_region = << >>
       THEN Panic /\ UNCHANGED regions
       ELSE Continue /\ regions' = Append(regions, current_region[1])
    /\ UNCHANGED << circuit, k, instance, fixed, advice, permutations, result >>

\* the body of assign_fixed, from the region cr
AssignFixed(cr, column, row, to) ==
    /\ current_region' = RecordCell(cr, Col("Fixed", column), row)
    /\ IF to = ProducerErr
       THEN Fail("SynthesisError") /\ UNCHANGED fixed
       ELSE IF column >= cs.num_fixed_columns \/ row >= n
       THEN Fail("BoundsFailure") /\ UNCHANGED fixed
       ELSE Continue /\ fixed' = [fixed EXCEPT ![column][row] = to]

\* enable_selector skipping the record when no region is open, as the assign
\* operations do
enable_selector_lenient(selector, row) ==
    /\ Synthesizing
    /\ nops' = nops + 1
    /\ IF current_region = << >>
       THEN AssignFixed(current_region, selector, row, F_one)
       ELSE \E pos \in 1 .. (Len(current_region[1].enabled_selectors) + 1) :
              AssignFixed(
                  << [current_region[1] EXCEPT !.enabled_selectors =
                        PushSelectorRow(@, selector, row, pos)] >>,
                  selector, row, F_one)
    /\ UNCHANGED << circuit, k, instance, advice, regions, permutations, result >>

\* enable_selector(_, selector, row)
enable_selector_call(selector, row) ==
    /\ Synthesizing
    /\ nops' = nops + 1
    /\ IF current_region = << >>
       THEN Panic /\ UNCHANGED << current_region, fixed >>
       ELSE \E pos \in 1 .. (Len(current_region[1].enabled_selectors) + 1) :
              AssignFixed(
                  << [current_region[1] EXCEPT !.enabled_selectors =
                        PushSelectorRow(@, selector, row, pos)] >>,
                  selector, row, F_one)
    /\ UNCHANGED << circuit, k, instance, advice, regions, permutations, result >>

enable_selector ==
    \E selector \in SelectorInputs, row \in RowInputs \cup { n } :
      enable_selector_call(selector, row)

\* assign_advice(_, column, row, to)
assign_advice_call(column, row, to) ==
    /\ Synthesizing
    /\ nops' = nops + 1
    /\ current_region' = RecordCell(current_region, Col("Advice", column), row)
    /\ IF to = ProducerErr
       THEN Fail("SynthesisError") /\ UNCHANGED advice
       ELSE IF column >= cs.num_advice_columns \/ row >= n
       THEN Fail("BoundsFailure") /\ UNCHANGED advice
       ELSE Continue /\ advice' = [advice EXCEPT ![column][row] = to]
    /\ UNCHANGED << circuit, k, instance, fixed, regions, permutations, result >>

assign_advice ==
    \E in \in AssignInputs(cs.num_advice_columns) :
      assign_advice_call(in[1], in[2], in[3])

\* assign_fixed(_, column, row, to)
assign_fixed_call(column, row, to) ==
    /\ Synthesizing
    /\ nops' = nops + 1
    /\ AssignFixed(current_region, column, row, to)
    /\ UNCHANGED << circuit, k, instance, advice, regions, permutations, result >>

assign_fixed ==
    \E in \in AssignInputs(cs.num_fixed_columns) :
      assign_fixed_call(in[1], in[2], in[3])

\* copy taking column 0 of the permutation for a column that is not in it
copy_call_defaultcolumn(permutation, left_column, left_row, right_column, right_row) ==
    /\ Synthesizing
    /\ nops' = nops + 1
    /\ IF permutation >= Len(permutations)
       THEN Fail("BoundsFailure") /\ UNCHANGED permutations
       ELSE LET lp == Position(cs.permutations[permutation + 1], left_column)
                rp == Position(cs.permutations[permutation + 1], right_column)
                left_column_index == IF lp = None THEN 0 ELSE lp
                right_column_index == IF rp = None THEN 0 ELSE rp
            IN  /\ Continue
                /\ permutations' =
                     [permutations EXCEPT ![permutation + 1] =
                        Assembly_copy(@, left_column_index, left_row,
                                      right_column_index, right_row)]
    /\ UNCHANGED << circuit, k, instance, fixed, advice, regions, current_region, result >>

\* copy(permutation, left_column, left_row, right_column, right_row)
copy_call(permutation, left_column, left_row, right_column, right_row) ==
    /\ Synthesizing
    /\ nops' = nops + 1
    /\ IF permutation >= Len(permutations)
       THEN Fail("BoundsFailure") /\ UNCHANGED permutations
       ELSE LET left_column_index == Position(cs.permutations[permutation + 1], left_column)
                right_column_index == Position(cs.permutations[permutation + 1], right_column)
            IN  IF left_column_index = None \/ right_column_index = None
                THEN Fail("SynthesisError") /\ UNCHANGED permutations
                ELSE /\ Continue
                     /\ permutations' =
                          [permutations EXCEPT ![permutation + 1] =
                             Assembly_copy(@, left_column_index, left_row,
                                           right_column_index, right_row)]
    /\ UNCHANGED << circuit, k, instance, fixed, advice, regions, current_region, result >>

copy ==
    \E permutation \in PermInputs, left_column \in LeftColumns, left_row \in CopyRows,
       right_column \in RightColumns, right_row \in CopyRows :
      copy_call(permutation, left_column, left_row, right_column, right_row)

\* circuit.synthesize(&mut prover, config)? returned Ok: run returns the prover
synthesize_ok ==
    /\ phase = "synthesizing"
    /\ phase' = "synthesized"
    /\ UNCHANGED << circuit, k, instance, fixed, advice, regions, current_region,
                    permutations, error, result, nops >>

----------------------------------------------------------------------------
(* MockProver::verify *)

\* self.instance[column][row]: a panic when the column or the row is not there
InstanceAt(column, row) ==
    IF column + 1 > Len(instance) THEN Undef
    ELSE IF row + 1 > Len(instance[column + 1]) THEN Undef
    ELSE instance[column + 1][row + 1]

\* the row itself, the rotation dropped
ResolvedRow_norotation(row, rotation) == row % n

\* (row + n + rotation) % n, as i32 arithmetic leaves it for |rotation| <= n
ResolvedRow(row, rotation) == (row + n + rotation) % n

\* load_opt reading the query's column at the row itself
load_opt_norotation(row, queries, cells, index) ==
    cell_value(cells[queries[index + 1].column][row])

\* load_opt(n, row, queries, cells)(index)
load_opt(row, queries, cells, index) ==
    LET q == queries[index + 1]
    IN  cell_value(cells[q.column][ResolvedRow(row, q.rotation)])

\* load(n, row, queries, cells)(index)
load(row, queries, index) ==
    LET q == queries[index + 1]
    IN  InstanceAt(q.column, ResolvedRow(row, q.rotation))

RECURSIVE evaluate(_, _)
\* Expression::evaluate with verify's closures, at row; Undef when a closure
\* panicked
evaluate(e, row) ==
    CASE e.tag = "Constant" -> e.v
      [] e.tag = "Fixed" -> load_opt(row, cs.fixed_queries, fixed, e.index)
      [] e.tag = "Advice" -> load_opt(row, cs.advice_queries, advice, e.index)
      [] e.tag = "Instance" -> load(row, cs.instance_queries, e.index)
      [] e.tag = "Sum" ->
           LET a == evaluate(e.a, row)
               b == evaluate(e.b, row)
           IN  IF a = Undef \/ b = Undef THEN Undef ELSE F_add(a, b)
      [] e.tag = "Product" ->
           LET a == evaluate(e.a, row)
               b == evaluate(e.b, row)
           IN  IF a = Undef \/ b = Undef THEN Undef ELSE F_mul(a, b)
      [] e.tag = "Scaled" ->
           LET a == evaluate(e.a, row)
           IN  IF a = Undef THEN Undef ELSE F_mul(a, e.f)

RECURSIVE Flatten(_)
\* flat_map: the concatenation of a sequence of sequences
Flatten(ss) == IF ss = << >> THEN << >> ELSE Head(ss) \o Flatten(Tail(ss))

\* what one step of a check's iterator does: yield nothing, yield a failure,
\* or panic
Pass == [kind |-> "Pass"]
Panicked == [kind |-> "Panic"]

\* selector_errors with the offset taken from the row before it is wrapped
selector_errors_unwrapped(rs) ==
    Flatten([r_i \in 1 .. Len(rs) |->
      LET r == rs[r_i] IN
      Flatten([e_i \in 1 .. Len(r.enabled_selectors) |->
        LET selector == r.enabled_selectors[e_i].selector
            at == r.enabled_selectors[e_i].rows IN
        Flatten([g_i \in 1 .. Len(cs.gates) |->
          LET gate == cs.gates[g_i] IN
          IF selector \notin gate.queried_selectors THEN << >>
          ELSE Flatten([a_i \in 1 .. Len(at) |->
            [c_i \in 1 .. Len(gate.queried_cells) |->
              LET cell == gate.queried_cells[c_i]
                  cell_row == ResolvedRow(at[a_i], cell.rotation)
              IN  IF [column |-> cell.column, row |-> cell_row] \in r.cells
                  THEN Pass
                  ELSE IF r.start = None THEN Panicked
                  ELSE [ kind |-> "Cell",
                         region_index |-> r_i - 1,
                         region_name |-> r.name,
                         column |-> cell.column,
                         offset |-> at[a_i] + cell.rotation - r.start,
                         gate_index |-> g_i - 1,
                         gate_name |-> gate.name ]]])])])])

\* Check that within each region, all cells used in instantiated gates have
\* been assigned to.
selector_errors_of(rs) ==
    Flatten([r_i \in 1 .. Len(rs) |->
      LET r == rs[r_i] IN
      Flatten([e_i \in 1 .. Len(r.enabled_selectors) |->
        LET selector == r.enabled_selectors[e_i].selector
            at == r.enabled_selectors[e_i].rows IN
        Flatten([g_i \in 1 .. Len(cs.gates) |->
          LET gate == cs.gates[g_i] IN
          IF selector \notin gate.queried_selectors THEN << >>
          ELSE Flatten([a_i \in 1 .. Len(at) |->
            [c_i \in 1 .. Len(gate.queried_cells) |->
              LET cell == gate.queried_cells[c_i]
                  cell_row == ResolvedRow(at[a_i], cell.rotation)
              IN  IF [column |-> cell.column, row |-> cell_row] \in r.cells
                  THEN Pass
                  ELSE IF r.start = None THEN Panicked
                  ELSE [ kind |-> "Cell",
                         region_index |-> r_i - 1,
                         region_name |-> r.name,
                         column |-> cell.column,
                         offset |-> cell_row - r.start,
                         gate_index |-> g_i - 1,
                         gate_name |-> gate.name ]]])])])])

\* selector_errors over self.regions
selector_errors == selector_errors_of(regions)

\* gate_errors with the test against zero inverted
gate_errors_inverted ==
    Flatten([g_i \in 1 .. Len(cs.gates) |->
      LET gate == cs.gates[g_i] IN
      Flatten([row1 \in 1 .. n |->
        [p_i \in 1 .. Len(gate.polys) |->
          LET v == evaluate(gate.polys[p_i], row1 - 1)
          IN  IF v = Undef THEN Panicked
              ELSE IF v # F_zero THEN Pass
              ELSE [ kind |-> "Constraint",
                     gate_index |-> g_i - 1,
                     gate_name |-> gate.name,
                     constraint_index |-> p_i - 1,
                     constraint_name |-> gate.constraint_names[p_i],
                     row |-> row1 - 1 ]]])])

\* Check that all gates are satisfied for all rows.
gate_errors ==
    Flatten([g_i \in 1 .. Len(cs.gates) |->
      LET gate == cs.gates[g_i] IN
      Flatten([row1 \in 1 .. n |->
        [p_i \in 1 .. Len(gate.polys) |->
          LET v == evaluate(gate.polys[p_i], row1 - 1)
          IN  IF v = Undef THEN Panicked
              ELSE IF v = F_zero THEN Pass
              ELSE [ kind |-> "Constraint",
                     gate_index |-> g_i - 1,
                     gate_name |-> gate.name,
                     constraint_index |-> p_i - 1,
                     constraint_name |-> gate.constraint_names[p_i],
                     row |-> row1 - 1 ]]])])

RECURSIVE IterEq(_, _, _, _)
\* table_row.eq(inputs.iter().cloned()) from position j on: the table side is
\* evaluated first, and nothing after the first difference is evaluated
IterEq(lookup, inputs, table_row, j) ==
    IF j > Len(lookup.table_expressions) THEN
        IF j > Len(inputs) THEN "eq" ELSE "ne"
    ELSE LET t == evaluate(lookup.table_expressions[j], table_row)
         IN  IF t = Undef THEN "panic"
             ELSE IF j > Len(inputs) THEN "ne"
             ELSE IF t # inputs[j] THEN "ne"
             ELSE IterEq(lookup, inputs, table_row, j + 1)

RECURSIVE any(_, _, _)
\* (table_row..n).map(..).any(|table_row| table_row.eq(inputs))
any(lookup, inputs, table_row) ==
    IF table_row >= n THEN "false"
    ELSE LET c == IterEq(lookup, inputs, table_row, 1)
         IN  IF c = "eq" THEN "true"
             ELSE IF c = "panic" THEN "panic"
             ELSE any(lookup, inputs, table_row + 1)

\* Check that all lookups exist in their respective tables.
lookup_errors ==
    Flatten([l_i \in 1 .. Len(cs.lookups) |->
      LET lookup == cs.lookups[l_i] IN
      [row1 \in 1 .. n |->
        LET input_row == row1 - 1
            inputs == [j \in 1 .. Len(lookup.input_expressions) |->
                         evaluate(lookup.input_expressions[j], input_row)]
            lookup_passes ==
                IF \E j \in 1 .. Len(inputs) : inputs[j] = Undef THEN "panic"
                ELSE any(lookup, inputs, 0)
        IN  IF lookup_passes = "panic" THEN Panicked
            ELSE IF lookup_passes = "true" THEN Pass
            ELSE [ kind |-> "Lookup", lookup_index |-> l_i - 1, row |-> input_row ]]])

\* Original values of columns involved in the permutation
original(perm_index, column, row) ==
    LET c == cs.permutations[perm_index + 1][column + 1]
    IN  CASE c.column_type = "Advice" -> cell_value(advice[c.index][row])
          [] c.column_type = "Fixed" -> cell_value(fixed[c.index][row])
          [] c.column_type = "Instance" -> InstanceAt(c.index, row)

\* perm_errors reading the permuted cell at the slot's own row
perm_errors_samerow ==
    Flatten([p_i \in 1 .. Len(permutations) |->
      LET assembly == permutations[p_i] IN
      Flatten([c1 \in 1 .. Cardinality(DOMAIN assembly) |->
        [row1 \in 1 .. n |->
          LET column == c1 - 1
              row == row1 - 1
              cell == assembly[column][row]
              original_cell == original(p_i - 1, column, row)
              permuted_cell == original(p_i - 1, cell[1], row)
          IN  IF original_cell = Undef \/ permuted_cell = Undef THEN Panicked
              ELSE IF original_cell = permuted_cell THEN Pass
              ELSE [ kind |-> "Permutation", perm_index |-> p_i - 1,
                     column |-> column, row |-> row ]]])])

\* Check that permutations preserve the original values of the cells.
perm_errors ==
    Flatten([p_i \in 1 .. Len(permutations) |->
      LET assembly == permutations[p_i] IN
      Flatten([c1 \in 1 .. Cardinality(DOMAIN assembly) |->
        [row1 \in 1 .. n |->
          LET column == c1 - 1
              row == row1 - 1
              cell == assembly[column][row]
              original_cell == original(p_i - 1, column, row)
              permuted_cell == original(p_i - 1, cell[1], cell[2])
          IN  IF original_cell = Undef \/ permuted_cell = Undef THEN Panicked
              ELSE IF original_cell = permuted_cell THEN Pass
              ELSE [ kind |-> "Permutation", perm_index |-> p_i - 1,
                     column |-> column, row |-> row ]]])])

\* iter::empty().chain(selector_errors).chain(gate_errors)
\*     .chain(lookup_errors).chain(perm_errors)
Chain == selector_errors \o gate_errors \o lookup_errors \o perm_errors

IsPanic(o) == o.kind = "Panic"
IsFailure(o) == o.kind \notin { "Pass", "Panic" }

\* the steps collect() takes before the first panic, if any
FirstPanic(steps) ==
    IF \E i \in 1 .. Len(steps) : IsPanic(steps[i])
    THEN CHOOSE i \in 1 .. Len(steps) :
           IsPanic(steps[i]) /\ \A j \in 1 .. (i - 1) : ~IsPanic(steps[j])
    ELSE Len(steps) + 1
Collected(steps) == SelectSeq(SubSeq(steps, 1, FirstPanic(steps) - 1), IsFailure)

\* the value verify returns, or the panic it ends in
verify_result ==
    LET steps == Chain
        errors == Collected(steps)
    IN  IF FirstPanic(steps) <= Len(steps) THEN [kind |-> "Panic", errors |-> << >>]
        ELSE IF errors = << >> THEN [kind |-> "Ok", errors |-> << >>]
        ELSE [kind |-> "Err", errors |-> errors]

\* verify taking the regions out of the prover as it checks them
verify_draining ==
    /\ phase \in { "synthesized", "verified", "reverified" }
    /\ phase' = IF phase = "synthesized" THEN "verified" ELSE "reverified"
    /\ result' = verify_result
    /\ regions' = << >>
    /\ UNCHANGED << circuit, k, instance, fixed, advice, current_region,
                    permutations, error, nops >>

\* verify(&self), called on the prover run returned; "reverified" after a
\* call that was not the first
verify ==
    /\ phase \in { "synthesized", "verified", "reverified" }
    /\ phase' = IF phase = "synthesized" THEN "verified" ELSE "reverified"
    /\ result' = verify_result
    /\ UNCHANGED << circuit, k, instance, fixed, advice, regions, current_region,
                    permutations, error, nops >>

Next ==
    \/ enter_region
    \/ exit_region
    \/ enable_selector
    \/ assign_advice
    \/ assign_fixed
    \/ copy
    \/ synthesize_ok
    \/ verify

Spec == Init /\ [][Next]_vars

----------------------------------------------------------------------------
(* What the claims speak of *)

Verified == phase \in { "verified", "reverified" }

\* the failures verify's collect() received, in order, up to a panic if any
Yielded == Collected(Chain)
OfKind(seq, kind) == SelectSeq(seq, LAMBDA o : o.kind = kind)
Count(seq, x) == Cardinality({ i \in 1 .. Len(seq) : seq[i] = x })
Failures(steps) == SelectSeq(steps, IsFailure)

\* (region, selector entry, gate, recorded row, queried cell) of Check A
Tuples ==
    UNION { UNION { UNION { UNION {
        { << r, e, g, a, c >> : c \in 1 .. Len(cs.gates[g].queried_cells) }
        : a \in 1 .. Len(regions[r].enabled_selectors[e].rows) }
        : g \in { g \in 1 .. Len(cs.gates) :
                    regions[r].enabled_selectors[e].selector
                        \in cs.gates[g].queried_selectors } }
        : e \in 1 .. Len(regions[r].enabled_selectors) }
        : r \in 1 .. Len(regions) }

\* the cell a tuple needs: (column, (selector_row + rotation) mod n)
CellOf(t) ==
    LET q == cs.gates[t[3]].queried_cells[t[5]]
        selector_row == regions[t[1]].enabled_selectors[t[2]].rows[t[4]]
    IN  [column |-> q.column, row |-> (selector_row + q.rotation) % n]

Absent(t) == CellOf(t) \notin regions[t[1]].cells

CellFailureOf(t) ==
    [ kind |-> "Cell",
      region_index |-> t[1] - 1,
      region_name |-> regions[t[1]].name,
      column |-> CellOf(t).column,
      offset |-> CellOf(t).row - regions[t[1]].start,
      gate_index |-> t[3] - 1,
      gate_name |-> cs.gates[t[3]].name ]

ConstraintFailureOf(g, p, row) ==
    [ kind |-> "Constraint",
      gate_index |-> g - 1,
      gate_name |-> cs.gates[g].name,
      constraint_index |-> p - 1,
      constraint_name |-> cs.gates[g].constraint_names[p],
      row |-> row ]

\* the constraint evaluates to a non-zero field value
NonZero(g, p, row) ==
    LET v == evaluate(cs.gates[g].polys[p], row) IN v # Undef /\ v # F_zero

\* some table row holds the input tuple of lookup l at input_row
InTable(l, input_row) ==
    LET lookup == cs.lookups[l]
        m == Len(lookup.input_expressions)
    IN  \E table_row \in Rows :
          /\ Len(lookup.table_expressions) = m
          /\ \A j \in 1 .. m :
               LET i == evaluate(lookup.input_expressions[j], input_row)
                   t == evaluate(lookup.table_expressions[j], table_row)
               IN  i # Undef /\ t # Undef /\ i = t

\* the slots of permutation p and the grid values they hold
Slots(p) == (0 .. (Len(cs.permutations[p]) - 1)) \X Rows
GridValue(p, s) == original(p - 1, s[1], s[2])
MapsTo(p, s) == permutations[p][s[1]][s[2]]
\* both slots hold a value and the values differ
Differ(p, s, t) ==
    /\ GridValue(p, s) # Undef
    /\ GridValue(p, t) # Undef
    /\ GridValue(p, s) # GridValue(p, t)
HoldEqual(p, s, t) ==
    /\ GridValue(p, s) # Undef
    /\ GridValue(p, s) = GridValue(p, t)
PermFailureOf(p, s) ==
    [ kind |-> "Permutation", perm_index |-> p - 1, column |-> s[1], row |-> s[2] ]

AllGatesZero ==
    \A g \in 1 .. Len(cs.gates) : \A p \in 1 .. Len(cs.gates[g].polys) :
      \A row \in Rows : evaluate(cs.gates[g].polys[p], row) = F_zero
AllLookupsIn ==
    \A l \in 1 .. Len(cs.lookups) : \A row \in Rows : InTable(l, row)
AllCopiesEqual ==
    \A p \in 1 .. Len(permutations) : \A s \in Slots(p) :
      MapsTo(p, s) # s => HoldEqual(p, s, MapsTo(p, s))
Satisfied == AllGatesZero /\ AllLookupsIn /\ AllCopiesEqual

----------------------------------------------------------------------------
(* The claims *)

\* C1: verify returns success iff the four checks produce no failure, and
\* otherwise returns all their failures, A then B then C then D, none left
\* out.
C1_VerifyAggregates ==
    Verified =>
      LET all == Failures(selector_errors) \o Failures(gate_errors)
                   \o Failures(lookup_errors) \o Failures(perm_errors)
      IN  IF all = << >> THEN result.kind = "Ok"
          ELSE result = [kind |-> "Err", errors |-> all]

\* C2 as stated: when every gate constraint is zero on every row, every
\* lookup input is in its table and every copy-linked pair holds equal
\* values, verify returns success.
C2_SatisfiedImpliesOk ==
    Verified /\ Satisfied => result.kind = "Ok"

\* C2 as amended: under the same conditions verify reports no Constraint,
\* Lookup or Permutation failure; every failure it returns is a Cell failure.
C2_SatisfiedImpliesOnlyCellFailures ==
    Verified /\ Satisfied =>
      \A i \in 1 .. Len(result.errors) : result.errors[i].kind = "Cell"

\* a satisfied witness for which verify still returns failures
C2_Witness ==
    Verified /\ Satisfied /\ result.kind = "Err" /\ Len(result.errors) >= 1

C4_GateSatisfaction ==
    Verified =>
      \A g \in 1 .. Len(cs.gates) : \A p \in 1 .. Len(cs.gates[g].polys) :
        \A row \in Rows :
          Count(Yielded, ConstraintFailureOf(g, p, row))
            = IF NonZero(g, p, row) THEN 1 ELSE 0

\* C5: Check C emits the Lookup failure of (lookup, input row) iff no table
\* row in [0, n) holds the input tuple.
C5_LookupInclusion ==
    Verified =>
      \A l \in 1 .. Len(cs.lookups) : \A row \in Rows :
        (\E i \in 1 .. Len(Yielded) :
           Yielded[i] = [kind |-> "Lookup", lookup_index |-> l - 1, row |-> row])
          <=> ~InTable(l, row)

\* C6: Check D emits the Permutation failure of (permutation, column slot,
\* row) iff the slot's grid value differs from that of the slot the assembly
\* maps it to; a slot mapped to itself produces none.
C6_PermutationPreservation ==
    Verified =>
      \A p \in 1 .. Len(permutations) : \A s \in Slots(p) :
        (\E i \in 1 .. Len(Yielded) : Yielded[i] = PermFailureOf(p, s))
          <=> Differ(p, s, MapsTo(p, s))

\* the Permutation failures a returned list holds for the cells s and t
ForPair(p, s, t) ==
    Count(result.errors, PermFailureOf(p, s)) + Count(result.errors, PermFailureOf(p, t))
\* s and t are linked to each other and to no other cell
LinkedPair(p, s, t) == t # s /\ MapsTo(p, s) = t /\ MapsTo(p, t) = s

\* C7 as stated: for a pair of cells linked by a copy, a verify that returns
\* reports exactly one Permutation failure for the pair when their values
\* differ, and none when they are equal.
C7_OneFailurePerCopiedPair ==
    Verified /\ result.kind # "Panic" =>
      \A p \in 1 .. Len(permutations) : \A s \in Slots(p) :
        LET t == MapsTo(p, s)
        IN  LinkedPair(p, s, t) =>
              /\ Differ(p, s, t) => ForPair(p, s, t) = 1
              /\ HoldEqual(p, s, t) => ForPair(p, s, t) = 0

\* C7 as amended: when the two cells of a copied pair hold different values
\* verify does not return success and a failure list it returns holds two
\* Permutation failures for the pair, one naming each cell; when they hold
\* equal values a returned list holds none for the pair.
C7_TwoFailuresPerCopiedPair ==
    Verified =>
      \A p \in 1 .. Len(permutations) : \A s \in Slots(p) :
        LET t == MapsTo(p, s)
        IN  LinkedPair(p, s, t) =>
              /\ Differ(p, s, t) =>
                    /\ result.kind # "Ok"
                    /\ result.kind = "Err" =>
                          /\ Count(result.errors, PermFailureOf(p, s)) = 1
                          /\ Count(result.errors, PermFailureOf(p, t)) = 1
              /\ HoldEqual(p, s, t) => ForPair(p, s, t) = 0

\* a copy between two rows of one column holding different values, reported
\* from both sides
C7_Witness ==
    /\ Verified
    /\ result.kind = "Err"
    /\ \E p \in 1 .. Len(permutations) : \E s \in Slots(p) :
         LET t == MapsTo(p, s)
         IN  /\ LinkedPair(p, s, t)
             /\ s[2] # t[2]
             /\ Differ(p, s, t)
             /\ ForPair(p, s, t) = 2

\* the test's state: selector q enabled at row 1 of the only region, a
\* assigned zero at row 0 and nowhere else, b never assigned
UnassignedCellTest ==
    /\ circuit = "Faulty"
    /\ advice[0][0] = F_zero
    /\ \A r \in Rows : (r # 0 => advice[0][r] = None) /\ advice[1][r] = None
    /\ Len(regions) = 1
    /\ current_region = << >>
    /\ regions[1].enabled_selectors = << [selector |-> 0, rows |-> << 1 >>] >>
    /\ regions[1].cells = { [column |-> Col("Fixed", 0), row |-> 1],
                            [column |-> Col("Advice", 0), row |-> 0] }

\* C8: when exactly one cell queried by an enabled gate is unassigned in its
\* region and the witness otherwise satisfies every constraint, verify
\* returns exactly that one Cell failure (region, gate, column, offset from
\* the region start) and no Constraint failure; in the test's instance the
\* failure names column b at offset 1.
C8_UnassignedCell ==
    Verified =>
      /\ \A t \in Tuples :
           ({ u \in Tuples : Absent(u) } = { t } /\ Satisfied) =>
             result = [kind |-> "Err", errors |-> << CellFailureOf(t) >>]
      /\ UnassignedCellTest =>
           result = [kind |-> "Err", errors |->
                      << [ kind |-> "Cell",
                           region_index |-> 0,
                           region_name |-> "Faulty synthesis",
                           column |-> Col("Advice", 1),
                           offset |-> 1,
                           gate_index |-> 0,
                           gate_name |-> "Equality check" ] >>]

C8_Witness == Verified /\ UnassignedCellTest /\ Len(result.errors) = 1

\* the witness row (1, 0, 1) at row 0 with the lookup selector enabled
XorWitnessRow ==
    /\ circuit = "Xor"
    /\ fixed[0][0] = F_one
    /\ advice[0][0] = 1
    /\ cell_value(advice[1][0]) = 0
    /\ advice[2][0] = 1

\* C9: with the XOR truth table in the instance columns and the witness row
\* (1, 0, 1) enabled, verify returns success; with each instance column
\* reduced to the single value 1, verify returns a failure list holding the
\* Lookup failure of that row.
C9_XorLookupTest ==
    Verified /\ XorWitnessRow =>
      /\ (instance = XorTable /\ n >= 4) => result.kind = "Ok"
      /\ instance = XorOnes =>
           /\ result.kind = "Err"
           /\ \E i \in 1 .. Len(result.errors) :
                result.errors[i] = [kind |-> "Lookup", lookup_index |-> 0, row |-> 0]

\* C10: verify never reads an instance cell that does not exist: no check
\* ends in an index-out-of-bounds panic.
C10_InstanceReadsDefined ==
    Verified => result.kind # "Panic"

\* the selector q of the unassigned-cell circuit is one at row 0 and zero on
\* every other row: row 0 is the only row whose constraint can be non-zero
OnlyRowZeroEnabled ==
    /\ circuit = "Faulty"
    /\ \A r \in Rows : cell_value(fixed[0][r]) = (IF r = 0 THEN F_one ELSE F_zero)

\* C11: a query with rotation -1 evaluated at row 0 reads row n - 1: with row
\* 0 the only row that can fail, verify reports exactly one Constraint
\* failure, at row 0, iff a at row n - 1 differs from b at row 0, and none
\* otherwise.
C11_RotationWraparound ==
    Verified /\ OnlyRowZeroEnabled =>
      OfKind(result.errors, "Constraint")
        = IF cell_value(advice[0][n - 1]) # cell_value(advice[1][0])
          THEN << ConstraintFailureOf(1, 1, 0) >>
          ELSE << >>

\* n = 4, a written at row 3 only, and the failure at row 0 reported
C11_Witness ==
    /\ Verified
    /\ OnlyRowZeroEnabled
    /\ n = 4
    /\ advice[0][3] = 1
    /\ \A r \in 0 .. 2 : advice[0][r] = None
    /\ \A r \in Rows : advice[1][r] = None
    /\ \E i \in 1 .. Len(result.errors) : result.errors[i] = ConstraintFailureOf(1, 1, 0)

\* C12: verify changes no grid cell, region record or permutation assembly,
\* and a call made after another ends as the one before it did: the same
\* failures in the same order.
C12_VerifyRepeatable ==
    [][ verify =>
          /\ UNCHANGED << instance, fixed, advice, regions, current_region, permutations >>
          /\ Verified => result' = result ]_vars

\* verify called again on a state for which it returns several failures
C12_Witness ==
    /\ phase = "reverified"
    /\ result.kind = "Err"
    /\ Len(result.errors) >= 2

C14_FailedOperationChangesNothing ==
    [][ ((assign_advice \/ assign_fixed \/ enable_selector) /\ phase' = "failed") =>
          /\ error' \in { "BoundsFailure", "SynthesisError" }
          /\ UNCHANGED << fixed, advice, current_region >> ]_vars

\* the rows a region holds under a selector
RowsUnder(r, selector) ==
    IF HasKey(r.enabled_selectors, selector)
    THEN r.enabled_selectors[CHOOSE i \in 1 .. Len(r.enabled_selectors) :
                               r.enabled_selectors[i].selector = selector].rows
    ELSE << >>
\* the call is outside the fixed grid
SelectorOutOfBounds(selector, row) == row >= n \/ selector >= cs.num_fixed_columns
\* the call succeeded: the row is recorded last under the selector in the
\* open region and the backing fixed cell holds one
EnableSucceeded(selector, row) ==
    /\ phase' = phase
    /\ error' = "none"
    /\ current_region' # << >>
    /\ RowsUnder(current_region'[1], selector)
         = Append(RowsUnder(current_region[1], selector), row)
    /\ fixed'[selector][row] = F_one

\* C15 as stated: enable_selector in a region records the row and sets the
\* fixed cell to one, and whenever row >= n or the backing column is out of
\* range the call returns a bounds error and does not abort.
C15_EnableSelectorBoundsError ==
    [][ \A selector \in SelectorInputs, row \in RowInputs \cup { n } :
          enable_selector_call(selector, row) =>
            IF SelectorOutOfBounds(selector, row)
            THEN phase' = "failed" /\ error' = "BoundsFailure"
            ELSE current_region # << >> => EnableSucceeded(selector, row) ]_vars

\* C15 as amended: with a region open the call records the row and sets the
\* fixed cell to one, or returns a bounds error when row >= n or the backing
\* column is out of range; with no region open it aborts whatever the row.
C15_EnableSelectorInRegion ==
    [][ \A selector \in SelectorInputs, row \in RowInputs \cup { n } :
          enable_selector_call(selector, row) =>
            IF current_region = << >>
            THEN phase' = "panicked" /\ error' = "none" /\ fixed' = fixed
            ELSE IF SelectorOutOfBounds(selector, row)
            THEN phase' = "failed" /\ error' = "BoundsFailure" /\ fixed' = fixed
            ELSE EnableSucceeded(selector, row) ]_vars

\* enable_selector at row n in an open region has returned the bounds error
C15_Witness ==
    /\ phase = "failed"
    /\ error = "BoundsFailure"
    /\ current_region # << >>
    /\ \E selector \in cs.selectors :
         /\ RowsUnder(current_region[1], selector) # << >>
         /\ RowsUnder(current_region[1], selector)[Len(RowsUnder(current_region[1], selector))] = n

\* the column is one of the permutation's declared columns
InColumnSet(p, column) == \E i \in 1 .. Len(cs.permutations[p]) : cs.permutations[p][i] = column
\* the two slots are on one cycle of the assembly
Linked(m, a, b) == OnCycle(m, a, b, Cardinality(DOMAIN m) * n)

\* C16: copy returns a bounds error when the permutation reference is out of
\* range, whatever the columns; a synthesis error when the left or the right
\* column is not in the permutation's column set; in both cases no assembly
\* changes; otherwise it links the two slots in that permutation's assembly
\* and changes no other assembly.
C16_CopyErrorsAndLink ==
    [][ UNCHANGED << fixed, advice, regions, current_region, result >> =>
        \A permutation \in PermInputs, left_column \in LeftColumns, left_row \in CopyRows,
           right_column \in RightColumns, right_row \in CopyRows :
          copy_call(permutation, left_column, left_row, right_column, right_row) =>
            IF permutation >= Len(cs.permutations)
            THEN phase' = "failed" /\ error' = "BoundsFailure" /\ permutations' = permutations
            ELSE IF ~InColumnSet(permutation + 1, left_column)
                    \/ ~InColumnSet(permutation + 1, right_column)
            THEN phase' = "failed" /\ error' = "SynthesisError" /\ permutations' = permutations
            ELSE /\ phase' = phase
                 /\ error' = "none"
                 /\ \A j \in 1 .. Len(permutations) :
                      j # permutation + 1 => permutations'[j] = permutations[j]
                 /\ Linked(permutations'[permutation + 1],
                           << Position(cs.permutations[permutation + 1], left_column), left_row >>,
                           << Position(cs.permutations[permutation + 1], right_column), right_row >>)
      ]_vars

\* of two permutations, a copy has linked slots in the second and left the
\* first as it was created
C16_Witness ==
    /\ phase = "synthesizing"
    /\ error = "none"
    /\ Len(permutations) = 2
    /\ permutations[1] = Assembly_new(cs.permutations[1])
    /\ \E s \in Slots(2) : MapsTo(2, s) # s

\* every region of the recorder, finished or open
AllRegions == regions \o current_region
\* the rows of the writes issued while the region was open
WrittenRows(r) == { c.row : c \in r.cells }
LeastOf(S) == CHOOSE x \in S : \A y \in S : x <= y

\* C17: a region's start is undefined iff no assign_advice, assign_fixed or
\* enable_selector was issued while it was open, and is otherwise the least
\* row of those writes; a region that recorded a selector row has a start.
C17_RegionStartIsLeastRow ==
    \A i \in 1 .. Len(AllRegions) :
      LET r == AllRegions[i] IN
      /\ r.start = None <=> WrittenRows(r) = {}
      /\ WrittenRows(r) # {} => r.start = LeastOf(WrittenRows(r))
      /\ r.enabled_selectors # << >> => r.start # None

\* a finished region written at rows 0 and 3 whose start is row 0
C17_Witness ==
    /\ Len(regions) = 1
    /\ WrittenRows(regions[1]) = { 0, 3 }
    /\ regions[1].start = 0

\* run has returned a prover
RunReturned == phase \in { "synthesized", "verified", "reverified" }

\* C18: when run returns a prover no region is open: every region entered
\* during synthesis is among the finished regions.
C18_NoRegionOpenAfterRun ==
    RunReturned => current_region = << >>

\* the orders in which a map holding the entries es can iterate them
Reorderings(es) ==
    { [i \in 1 .. Len(es) |-> es[f[i]]] :
        f \in { g \in [1 .. Len(es) -> 1 .. Len(es)] :
                  \A i, j \in 1 .. Len(es) : g[i] = g[j] => i = j } }

\* C19: the failure list is the same, element by element, for every
\* construction driven by the same constraint system, instance and sequence of
\* operations: the Cell failures of a region that enabled several selectors do
\* not depend on the order in which its selector map iterates.
C19_OrderStable ==
    Verified =>
      \A r_i \in 1 .. Len(regions) :
        \A es \in Reorderings(regions[r_i].enabled_selectors) :
          Failures(selector_errors_of([regions EXCEPT ![r_i].enabled_selectors = es]))
            = Failures(selector_errors)

\* the tuple's selector row is its region's start row and the queried cell
\* is the one of the previous row
PrevAtStart(t) ==
    /\ cs.gates[t[3]].queried_cells[t[5]].rotation = -1
    /\ regions[t[1]].enabled_selectors[t[2]].rows[t[4]] = regions[t[1]].start
CellFailureWithOffset(t, off) == [CellFailureOf(t) EXCEPT !.offset = off]
ReportedCells == OfKind(Yielded, "Cell")

====
